---- MODULE Spec2Model ----
(***************************************************************************)
(* Bulk-file retrieval engine of EstrategiaDownOF: the checkpoint store    *)
(* (download_database.py, DownloadIndex of async_downloader.py), the       *)
(* transfer engine with its retry policy (download_file_async,             *)
(* download_file_task, retry_with_backoff) and the two orchestrators       *)
(* (process_download_queue_async, process_download_queue).                 *)
(***************************************************************************)
EXTENDS Integers, Sequences, FiniteSets, TLC

(***************************************************************************)
(* Bounds of the model.                                                    *)
(***************************************************************************)
NumPaths == 3      \* destination paths, one download task per path
NumTasks == 2      \* tasks of an arbitrary task list, paths the direct callers mark
NumCallers == 2    \* threads that call the store directly
MaxCalls == 2      \* store calls those threads make
MaxBatch == 2      \* longest list passed to mark_downloaded_batch
FileLen == 2       \* chunks in the resource a task downloads
MaxWorkers == 2    \* largest max_workers an orchestrator is run with
MaxRuns == 2       \* orchestrator runs, each after a crash of the one before
MaxFaults == 1     \* failing responses the server gives during one orchestrator run
MaxInits == 2      \* constructions of the rich store on one base directory

Paths == 1..NumPaths
\* The paths of the tasks of an arbitrary run (the three-file run uses all paths).
Tasks == 1..(IF NumTasks < NumPaths THEN NumTasks ELSE NumPaths)
\* A download task calls the store under the number of its path.
Callers == 1..(IF NumCallers > NumPaths THEN NumCallers ELSE NumPaths)

(***************************************************************************)
(* Values.                                                                 *)
(***************************************************************************)
\* Python's None and a missing file, kept apart from every size and digest.
None == 0 - 1
Absent == 0 - 1
\* The (file_type, size_bytes) arguments the callers pass.
Metas == {<<"video", None>>, <<"pdf", 1>>, <<"unknown", None>>}

VARIABLES
  use_sqlite,   \* DownloadDatabase.use_sqlite: TRUE rich backend, FALSE flat backend
  downloads,    \* committed rows of table downloads
  statistics,   \* committed singleton row of table statistics
  txn,          \* the open SQLite write transaction, or NoTxn
  lock,         \* holder of self._lock, 0 when free
  completed,    \* the flat backend's in-memory set self.completed
  jsonDoc,      \* download_index.json: whether it exists, its "completed" array,
                \* and whether it was opened for writing and not yet written (torn)
  legacy,       \* the migration of download_index.json into the rich store: the
                \* backup file it left and, for the claims, how it went
  disk,         \* disk[p]: size in chunks of the final file at path p, or Absent
  content,      \* content[p]: which bytes the file at p holds, among those of its
                \* length: 0 as they were written, above 0 once they were altered
  part,         \* part[p]: size in chunks of the file p + ".part", or Absent
  call,         \* call[c]: the store operation caller c is executing
  callsLeft,    \* store calls the direct callers may still start
  requested,    \* requested[p]: how many marks of p the direct callers requested
  overlap,      \* overlap[p]: two marks of p have been in progress at once
  strategy,     \* "async" (download_file_async) or "thread" (download_file_task)
  maxConcurrent,\* max_workers of the semaphore / of the thread pool
  queue,        \* the task list handed to the orchestrator (tasks named by path)
  phase,        \* orchestrator: "Idle", "Draining", "Done"
  run,          \* number of the current process run
  task,         \* task[t]: the transfer engine's state for task t
  faultsLeft,   \* failing responses the server may still give, Unlimited if any
  lostMark,     \* lostMark[t]: a crash hit t between its rename and its mark
  cancelled,    \* the operator has interrupted the current run (KeyboardInterrupt)
  other         \* what the same task list, on the same base directory and with
                \* the same server, ended in under the other strategy, if that
                \* run was made first (for the comparison of the strategies)

storeVars == <<use_sqlite, downloads, statistics, txn, lock, completed, jsonDoc,
              legacy>>
clientVars == <<callsLeft, requested, overlap>>
runVars == <<strategy, maxConcurrent, queue, phase, run, faultsLeft, lostMark,
             cancelled, other>>
vars == <<use_sqlite, downloads, statistics, txn, lock, completed, jsonDoc,
          legacy, disk, content, part, call, callsLeft, requested, overlap,
          strategy, maxConcurrent, queue, phase, run, task, faultsLeft, lostMark,
          cancelled, other>>

(***************************************************************************)
(* The rich backend's tables.                                              *)
(***************************************************************************)
\* CREATE TABLE statistics ... DEFAULT 0; INSERT OR IGNORE INTO statistics (id)
EmptyStatistics ==
  [total_files |-> 0, total_bytes |-> 0, total_videos |-> 0,
   total_pdfs |-> 0, total_materials |-> 0]

\* SELECT COUNT(*) FROM downloads WHERE file_path = ?
CountRows(rows, p) == Cardinality({r \in rows : r.file_path = p})

\* A replace that empties the table before it inserts.
InsertAfterDeleteAll(rows, row) == {row}
\* INSERT OR REPLACE INTO downloads: file_path is UNIQUE, so the rows that
\* conflict on it are deleted before the new row is inserted.
InsertOrReplace(rows, row) ==
  {r \in rows : r.file_path # row.file_path} \cup {row}

\* _update_statistics: "if size_bytes:" skips None and 0.
UpdateStatistics(st, file_type, size_bytes) ==
  [st EXCEPT
     !.total_files = @ + 1,
     !.total_bytes = IF size_bytes # None /\ size_bytes # 0 THEN @ + size_bytes ELSE @,
     !.total_videos = IF file_type = "video" THEN @ + 1 ELSE @,
     !.total_pdfs = IF file_type = "pdf" THEN @ + 1 ELSE @,
     !.total_materials = IF file_type = "material" THEN @ + 1 ELSE @]

\* content[p] of a file that cannot be opened for reading.
Unreadable == 0 - 1
\* The empty string that _calculate_sha256 returns for such a file ("except
\* (OSError, IOError): return \"\""); Python takes it for false, like None.
EmptyDigest == 0
NoDigest(h) == h \in {None, EmptyDigest}

\* _calculate_sha256: the digest of the file's bytes; a file is modelled by
\* its length and by which bytes of that length it holds, so the digest is a
\* number that names both (two different files never share a digest).
CalculateSha256(d, b, p) ==
  IF b[p] = Unreadable THEN EmptyDigest ELSE 100 * (1 + b[p]) + d[p]

\* No run under the other strategy has been made.
NoOther == <<>>

\* No legacy index has been migrated: there is no download_index.json.backup.*
\* file. For the claims: the initialisations of the rich store so far, whether a
\* migration raised, whether the first migration parsed a legacy index, and the
\* paths it found there.
NoLegacy == [backedUp |-> FALSE, backup |-> {}, inits |-> 0, failed |-> FALSE,
             parsed |-> FALSE, found |-> {}]

\* No write transaction is open.
NoTxn == [owner |-> 0, downloads |-> {}, statistics |-> EmptyStatistics]

\* "if size_bytes is None and os.path.exists(file_path): size_bytes = getsize"
ResolveSize(d, p, size_bytes) ==
  IF size_bytes = None /\ d[p] # Absent THEN d[p] ELSE size_bytes

\* The transfer engine's state for a task that is not being executed.
IdleTask ==
  [pc |-> "none", attempt |-> 0, delay |-> 0, remaining |-> 0, outcome |-> "",
   requests |-> 0, range |-> None, status |-> None, bodyChunks |-> 0,
   waits |-> <<>>,
   \* what the engine found, for the claims: the index and the disk at the check,
   \* the .part size at the last request, the failures by class
   sawIndexed |-> FALSE, sawExists |-> FALSE, partAtRequest |-> Absent,
   transients |-> 0, fatals |-> 0, fatalAt |-> 0,
   \* the task was still waiting to be admitted when the run was interrupted
   heldAtCancel |-> FALSE,
   \* the task's latest mark raised
   markRaised |-> FALSE]

(***************************************************************************)
(* Store operations, one caller (thread) at a time per step.               *)
(***************************************************************************)
IdleCall ==
  [op |-> "idle", pc |-> "idle", items |-> <<>>, i |-> 0,
   already_exists |-> FALSE, sha256 |-> None, snapshot |-> {},
   \* the (is_valid, message) a verify_file_integrity call returned
   result |-> <<>>]

Item(p, ft, sz) == [file_path |-> p, file_type |-> ft, size_bytes |-> sz]
Items == {Item(p, m[1], m[2]) : p \in Tasks, m \in Metas}
Batches == UNION {[1..n -> Items] : n \in 1..MaxBatch}

InFlight(c) == call[c].pc # "idle"
\* DownloadDatabase.__init__ has not returned yet: no method can be called.
Constructing == \E c \in Callers : call[c].op = "migrate"
CurrentItem(c) == call[c].items[call[c].i]
PathsOf(items) == {items[k].file_path : k \in 1..Len(items)}
TimesIn(items, p) == Cardinality({k \in 1..Len(items) : items[k].file_path = p})

\* Bookkeeping of the requests made so far (not program state).
NoteRequest(c, items) ==
  /\ callsLeft' = callsLeft - 1
  /\ requested' = [p \in Paths |-> requested[p] + TimesIn(items, p)]
  /\ overlap' = [p \in Paths |->
       overlap[p] \/ (/\ p \in PathsOf(items)
                      /\ \E o \in Callers \ {c} :
                           InFlight(o) /\ p \in PathsOf(call[o].items))]

\* A lock that excludes nobody.
LockFreeNever(l) == TRUE
\* "with self._lock:" blocks until no other thread holds the lock.
LockFree(l) == l = 0

\* Statistics updated on every mark, new path or not.
StatisticsAlways(st, already_exists, file_type, size_bytes) ==
  UpdateStatistics(st, file_type, size_bytes)
\* "if not already_exists: self._update_statistics(cursor, file_type, size_bytes)"
StatisticsAfterInsert(st, already_exists, file_type, size_bytes) ==
  IF ~already_exists THEN UpdateStatistics(st, file_type, size_bytes) ELSE st

\* What a SELECT on caller c's connection reads: its own uncommitted writes
\* when it has a transaction open, the committed rows otherwise.
View(c) == IF txn.owner = c THEN txn.downloads ELSE downloads

\* DownloadDatabase.mark_downloaded, rich backend, up to "with self._lock:":
\* the digest and the size are read from the file before the lock is taken.
MarkDownloaded(c, p, ft, sz, calculate_hash) ==
  LET sha == IF calculate_hash /\ disk[p] # Absent
             THEN CalculateSha256(disk, content, p) ELSE None
      it == Item(p, ft, ResolveSize(disk, p, sz))
  IN call' = [call EXCEPT ![c] =
       [IdleCall EXCEPT !.op = "mark_downloaded", !.pc = "lock",
                        !.items = <<it>>, !.i = 1, !.sha256 = sha]]

\* DownloadDatabase.mark_downloaded_batch, rich backend, up to "with self._lock:".
MarkDownloadedBatch(c, items) ==
  call' = [call EXCEPT ![c] =
    [IdleCall EXCEPT !.op = "mark_downloaded_batch", !.pc = "lock",
                     !.items = items, !.i = 1]]

\* DownloadIndex.mark_completed (and DownloadDatabase.mark_downloaded with
\* use_sqlite False): "with self._lock: self.completed.add(file_path)"; the
\* call to save() follows.
MarkCompleted(c, p) ==
  /\ LockFree(lock)
  /\ completed' = completed \cup {p}
  /\ call' = [call EXCEPT ![c] =
        [IdleCall EXCEPT !.op = "mark_completed", !.pc = "save",
                         !.items = <<Item(p, "unknown", None)>>, !.i = 1]]

\* A thread calls mark_downloaded on the rich store.
CallMarkDownloaded(c, p, ft, sz, calculate_hash) ==
  /\ use_sqlite
  /\ ~Constructing
  /\ callsLeft > 0
  /\ call[c].pc = "idle"
  /\ MarkDownloaded(c, p, ft, sz, calculate_hash)
  /\ NoteRequest(c, <<Item(p, ft, sz)>>)
  /\ UNCHANGED <<storeVars, disk, content, part, runVars, task>>

\* A thread calls mark_downloaded_batch on the rich store.
CallMarkDownloadedBatch(c, items) ==
  /\ use_sqlite
  /\ ~Constructing
  /\ callsLeft > 0
  /\ call[c].pc = "idle"
  /\ MarkDownloadedBatch(c, items)
  /\ NoteRequest(c, items)
  /\ UNCHANGED <<storeVars, disk, content, part, runVars, task>>

\* A thread calls mark_completed on the flat store.
CallMarkCompleted(c, p) ==
  /\ ~use_sqlite
  /\ callsLeft > 0
  /\ call[c].pc = "idle"
  /\ MarkCompleted(c, p)
  /\ NoteRequest(c, <<Item(p, "unknown", None)>>)
  /\ UNCHANGED <<use_sqlite, legacy, downloads, statistics, txn, lock, jsonDoc, disk, content, part,
                 runVars, task>>

\* "with self._lock: conn = sqlite3.connect(...); cursor = conn.cursor()"
AcquireLock(c) ==
  /\ call[c].pc = "lock"
  /\ LockFree(lock)
  /\ lock' = c
  /\ call' = [call EXCEPT ![c].pc = "select"]
  /\ UNCHANGED <<use_sqlite, legacy, downloads, statistics, txn, completed, jsonDoc,
                 disk, content, part, clientVars, runVars, task>>

\* "SELECT COUNT(*) FROM downloads WHERE file_path = ?"; in the batch the size of
\* an item given without one is read from the file first, inside the lock.
SelectExisting(c) ==
  /\ call[c].pc = "select"
  /\ LET it == CurrentItem(c)
         sized == IF call[c].op = "mark_downloaded_batch"
                  THEN [it EXCEPT !.size_bytes = ResolveSize(disk, it.file_path, @)]
                  ELSE it
     IN call' = [call EXCEPT ![c].pc = "insert",
                             ![c].items[call[c].i] = sized,
                             ![c].already_exists = CountRows(View(c), it.file_path) > 0]
  /\ UNCHANGED <<storeVars, disk, content, part, clientVars, runVars, task>>

\* The row each operation writes: mark_downloaded sets sha256 and verified,
\* mark_downloaded_batch leaves both columns to their defaults (NULL, FALSE).
NewRow(c) ==
  LET it == CurrentItem(c)
  IN [file_path |-> it.file_path, file_type |-> it.file_type,
      size_bytes |-> it.size_bytes,
      sha256 |-> IF call[c].op = "mark_downloaded" THEN call[c].sha256 ELSE None,
      verified |-> call[c].op = "mark_downloaded" /\ call[c].sha256 # None]

\* "INSERT OR REPLACE INTO downloads ...": the first write of a connection opens
\* its transaction, which SQLite grants to one connection at a time.
InsertRow(c) ==
  /\ call[c].pc = "insert"
  /\ txn.owner \in {0, c}
  /\ LET cur == IF txn.owner = 0
                THEN [owner |-> c, downloads |-> downloads, statistics |-> statistics]
                ELSE txn
     IN txn' = [cur EXCEPT !.downloads = InsertOrReplace(@, NewRow(c))]
  /\ call' = [call EXCEPT ![c].pc = "stats"]
  /\ UNCHANGED <<use_sqlite, legacy, downloads, statistics, lock, completed, jsonDoc,
                 disk, content, part, clientVars, runVars, task>>

\* "if not already_exists: self._update_statistics(...)", then the next item of
\* the batch or the commit.
UpdateStats(c) ==
  /\ call[c].pc = "stats"
  /\ LET it == CurrentItem(c)
     IN txn' = [txn EXCEPT !.statistics =
                  StatisticsAfterInsert(@, call[c].already_exists,
                                        it.file_type, it.size_bytes)]
  /\ call' = IF call[c].op = "mark_downloaded_batch" /\ call[c].i < Len(call[c].items)
             THEN [call EXCEPT ![c].pc = "select", ![c].i = @ + 1]
             ELSE [call EXCEPT ![c].pc = "commit"]
  /\ UNCHANGED <<use_sqlite, legacy, downloads, statistics, lock, completed, jsonDoc,
                 disk, content, part, clientVars, runVars, task>>

\* "conn.commit(); conn.close()" and the end of "with self._lock:". The call
\* returns; inside _migrate_from_json_if_needed the loop goes on to the next
\* legacy path ("migrated += 1") and, after the last one, to the backup.
Commit(c) ==
  /\ call[c].pc = "commit"
  /\ downloads' = txn.downloads
  /\ statistics' = txn.statistics
  /\ txn' = NoTxn
  /\ lock' = 0
  /\ call' = IF call[c].op # "migrate" THEN [call EXCEPT ![c] = IdleCall]
             ELSE IF call[c].i < Len(call[c].items)
             THEN [call EXCEPT ![c].pc = "next", ![c].i = @ + 1]
             ELSE [call EXCEPT ![c].pc = "backup"]
  /\ UNCHANGED <<use_sqlite, legacy, completed, jsonDoc, disk, content, part, clientVars, runVars, task>>

\* DownloadIndex.save: "with self._lock: completed_snapshot = list(self.completed)"
SaveSnapshot(c) ==
  /\ call[c].pc = "save"
  /\ LockFree(lock)
  /\ call' = [call EXCEPT ![c].pc = "write", ![c].snapshot = completed]
  /\ UNCHANGED <<storeVars, disk, content, part, clientVars, runVars, task>>

\* A load that finds nothing, whatever the file holds.
LoadNothing(doc) == {}
\* What load() / _load_json() reads from download_index.json: the "completed"
\* array of a document that parses; nothing from a missing file or from a file
\* that is not valid JSON ("except (ValueError, OSError): self.completed = set()").
LoadJson(doc) == IF doc.exists /\ ~doc.torn THEN doc.completed ELSE {}

\* "open(self.index_path, JSON_WRITE_MODE)" with mode 'wb' / 'w': the file is
\* created or truncated to length 0 before anything is written.
OpenForWrite(doc) == [exists |-> TRUE, completed |-> {}, torn |-> TRUE]

\* DownloadIndex.save: "with open(self.index_path, JSON_WRITE_MODE) as f:"
SaveOpen(c) ==
  /\ call[c].pc = "write"
  /\ jsonDoc' = OpenForWrite(jsonDoc)
  /\ call' = [call EXCEPT ![c].pc = "written"]
  /\ UNCHANGED <<use_sqlite, legacy, downloads, statistics, txn, lock, completed,
                 disk, content, part, clientVars, runVars, task>>

\* DownloadIndex.save: "f.write(json_dumps({'completed': completed_snapshot}))"
\* and the close of the file.
SaveWrite(c) ==
  /\ call[c].pc = "written"
  /\ jsonDoc' = [exists |-> TRUE, completed |-> call[c].snapshot, torn |-> FALSE]
  /\ call' = [call EXCEPT ![c] = IdleCall]
  /\ UNCHANGED <<use_sqlite, legacy, downloads, statistics, txn, lock, completed,
                 disk, content, part, clientVars, runVars, task>>

(***************************************************************************)
(* The construction of the rich store and the migration of a legacy index.  *)
(***************************************************************************)
\* Path 1 names an .mp4 file and every other path a .pdf file: "if
\* file_name.endswith('.mp4') ...: file_type = 'video'; elif
\* file_name.endswith('.pdf'): file_type = 'pdf'".
TypeFromName(p) == IF p = 1 THEN "video" ELSE "pdf"

\* The "completed" array of the legacy index, in some order (the order does not
\* change what the loop leaves behind once it has ended).
RECURSIVE InOrder(_)
InOrder(S) ==
  IF S = {} THEN <<>>
  ELSE LET first == CHOOSE x \in S : \A y \in S : x <= y
       IN <<Item(first, "unknown", None)>> \o InOrder(S \ {first})

\* The constructor returns; "failed" notes that the migration raised.
EndConstruct(failed) ==
  [legacy EXCEPT !.inits = @ + 1, !.failed = @ \/ failed]

\* DownloadDatabase(base_dir, use_sqlite=True): _init_sqlite creates the tables
\* and the statistics row only if they are missing, then
\* _migrate_from_json_if_needed begins: "if not json_path.exists(): return";
\* "SELECT COUNT(*) FROM downloads"; "if count > 0: return".
MigrateIfNeeded(c) ==
  /\ call[c].op = "migrate"
  /\ call[c].pc = "init"
  /\ IF ~jsonDoc.exists \/ Cardinality(downloads) > 0
     THEN /\ call' = [call EXCEPT ![c] = IdleCall]
          /\ legacy' = EndConstruct(FALSE)
     ELSE /\ call' = [call EXCEPT ![c].pc = "read"]
          /\ UNCHANGED legacy
  /\ UNCHANGED <<use_sqlite, downloads, statistics, txn, lock, completed, jsonDoc,
                 disk, content, part, clientVars, runVars, task>>

\* "data = json_loads(f.read()); completed_files = data.get('completed', [])";
\* "if not completed_files: return". A file that is not valid JSON raises, and
\* "except Exception" prints the error and lets the constructor return.
ReadLegacy(c) ==
  /\ call[c].pc = "read"
  /\ LET found == [legacy EXCEPT
                    !.found = IF legacy.inits = 0 THEN LoadJson(jsonDoc) ELSE @,
                    !.parsed = IF legacy.inits = 0 THEN ~jsonDoc.torn ELSE @]
     IN IF jsonDoc.torn
        THEN /\ call' = [call EXCEPT ![c] = IdleCall]
             /\ legacy' = [EndConstruct(TRUE) EXCEPT !.found = found.found,
                                                    !.parsed = found.parsed]
        ELSE IF jsonDoc.completed = {}
        THEN /\ call' = [call EXCEPT ![c] = IdleCall]
             /\ legacy' = [EndConstruct(FALSE) EXCEPT !.found = found.found,
                                                     !.parsed = found.parsed]
        ELSE /\ call' = [call EXCEPT ![c].pc = "next",
                                     ![c].items = InOrder(jsonDoc.completed),
                                     ![c].i = 1]
             /\ legacy' = found
  /\ UNCHANGED <<use_sqlite, downloads, statistics, txn, lock, completed, jsonDoc,
                 disk, content, part, clientVars, runVars, task>>

\* One turn of "for file_path in completed_files:" up to the lock inside
\* self.mark_downloaded(file_path=..., file_type=file_type, size_bytes=size_bytes):
\* the type from the name, the size from the file if it exists.
MigrateNext(c) ==
  /\ call[c].pc = "next"
  /\ LET p == CurrentItem(c).file_path
     IN call' = [call EXCEPT ![c].pc = "lock",
                             ![c].items[call[c].i] =
                               Item(p, TypeFromName(p), ResolveSize(disk, p, None))]
  /\ UNCHANGED <<storeVars, disk, content, part, clientVars, runVars, task>>

\* A backup made as a copy: the legacy index stays where it was.
Copied(doc) == doc
\* download_index.json after "json_path.rename(backup_path)": no such file.
Renamed(doc) == [exists |-> FALSE, completed |-> {}, torn |-> FALSE]

\* "backup_path = ... download_index.json.backup.<timestamp>;
\* json_path.rename(backup_path)" and the return of the constructor.
BackupLegacy(c) ==
  /\ call[c].pc = "backup"
  /\ legacy' = [EndConstruct(FALSE) EXCEPT !.backedUp = TRUE,
                                           !.backup = jsonDoc.completed]
  /\ jsonDoc' = Renamed(jsonDoc)
  /\ call' = [call EXCEPT ![c] = IdleCall]
  /\ UNCHANGED <<use_sqlite, downloads, statistics, txn, lock, completed,
                 disk, content, part, clientVars, runVars, task>>

\* A rich store is constructed on the same base directory once more (the next
\* run of the program).
Construct(c) ==
  /\ use_sqlite
  /\ legacy.inits \in 1..(MaxInits - 1)
  /\ \A o \in Callers : ~InFlight(o)
  /\ call' = [call EXCEPT ![c] = [IdleCall EXCEPT !.op = "migrate", !.pc = "init"]]
  /\ UNCHANGED <<storeVars, disk, content, part, clientVars, runVars, task>>

\* The failures still to come, Unlimited (below zero) when there is no limit.
FaultAllowed == faultsLeft # 0
UseFault == faultsLeft' = IF faultsLeft > 0 THEN faultsLeft - 1 ELSE faultsLeft

\* What is committed once a connection that raised is closed without a commit:
\* sqlite3 opens a transaction before the INSERT, and closing the connection
\* rolls it back. (With a connection in autocommit mode every statement would
\* stay.)
AfterRollbackAutocommit(committed, written) == written
AfterRollback(committed, written) == committed

\* The store operation of caller c raises part-way: an sqlite3.Error at a
\* statement or at the commit (the "with self._lock:" block is left, the
\* connection is dropped), an OSError at the open or the write of
\* download_index.json, or at the read or the rename of the legacy index.
\* Inside the constructor "except Exception" ends the migration.
StoreRaises(c) ==
  /\ call[c].pc \in {"read", "select", "insert", "stats", "commit", "backup",
                    "write", "written"}
  /\ FaultAllowed
  /\ UseFault
  /\ IF txn.owner = c
     THEN /\ downloads' = AfterRollback(downloads, txn.downloads)
          /\ statistics' = AfterRollback(statistics, txn.statistics)
          /\ txn' = NoTxn
     ELSE UNCHANGED <<downloads, statistics, txn>>
  /\ lock' = IF lock = c THEN 0 ELSE lock
  /\ legacy' = IF call[c].op = "migrate"
               THEN [EndConstruct(TRUE) EXCEPT
                       !.found = IF legacy.inits = 0 THEN LoadJson(jsonDoc) ELSE @]
               ELSE legacy
  /\ call' = [call EXCEPT ![c] = IdleCall]
  /\ UNCHANGED <<use_sqlite, completed, jsonDoc, disk, content, part, callsLeft,
                 requested, overlap, strategy, maxConcurrent, queue, phase, run,
                 lostMark, cancelled, other>>

\* A direct caller's store call raises.
CallRaises(c) ==
  /\ StoreRaises(c)
  /\ UNCHANGED task

(***************************************************************************)
(* The verification of downloaded files.                                    *)
(***************************************************************************)
\* The record of path p (file_path is UNIQUE).
RowOf(rows, p) == CHOOSE r \in rows : r.file_path = p

\* What verify_file_integrity(file_path, recalculate) returns. The messages:
\* "missing" = "Arquivo nao existe no disco", "not_recorded" = "Arquivo nao esta
\* no banco de dados", "size_mismatch" = "Tamanho diferente: ...", "hash_saved" =
\* "Hash calculado e salvo", "intact" = "Arquivo integro", "hash_mismatch" =
\* "Hash diferente: ...", "hash_error" = "Erro ao calcular hash do arquivo".
\* "if stored_size and actual_size != stored_size" skips
\* a stored size of None and of 0. With a stored digest both branches of "if
\* not stored_hash or recalculate" compute the digest and compare it.
VerifyResult(rows, d, b, p, recalculate) ==
  IF d[p] = Absent THEN <<FALSE, "missing">>
  ELSE IF CountRows(rows, p) = 0 THEN <<FALSE, "not_recorded">>
  ELSE LET r == RowOf(rows, p)
       IN IF r.size_bytes # None /\ r.size_bytes # 0 /\ d[p] # r.size_bytes
          THEN <<FALSE, "size_mismatch">>
          ELSE IF CalculateSha256(d, b, p) = EmptyDigest
          THEN <<FALSE, "hash_error">>
          ELSE IF NoDigest(r.sha256) THEN <<TRUE, "hash_saved">>
          ELSE IF CalculateSha256(d, b, p) = r.sha256 THEN <<TRUE, "intact">>
          ELSE <<FALSE, "hash_mismatch">>

\* A verification that withdraws the verified flag when the digest differs.
VerifiedRowsUnflag(rows, d, b, p, result) ==
  IF result[2] = "hash_mismatch"
  THEN InsertOrReplace(rows, [RowOf(rows, p) EXCEPT !.verified = FALSE])
  ELSE rows
\* "UPDATE downloads SET sha256 = ?, verified = TRUE, ..." on the first
\* verification, "UPDATE downloads SET verified = TRUE, ..." when the digest
\* matches; nothing is written when the call returns invalid.
VerifiedRows(rows, d, b, p, result) ==
  IF result[2] = "hash_saved"
  THEN InsertOrReplace(rows, [RowOf(rows, p) EXCEPT
                                !.sha256 = CalculateSha256(d, b, p),
                                !.verified = TRUE])
  ELSE IF result[2] = "intact"
  THEN InsertOrReplace(rows, [RowOf(rows, p) EXCEPT !.verified = TRUE])
  ELSE rows

\* DownloadDatabase.verify_file_integrity: the check that the file exists, then
\* everything else inside "with self._lock:", the commit included.
VerifyFileIntegrity(c, p, recalculate) ==
  /\ use_sqlite
  /\ ~Constructing
  /\ call[c].pc = "idle"
  /\ LockFree(lock)
  /\ LET result == VerifyResult(downloads, disk, content, p, recalculate)
     IN /\ downloads' = VerifiedRows(downloads, disk, content, p, result)
        /\ call' = [call EXCEPT ![c] =
             [IdleCall EXCEPT !.op = "verify_file_integrity",
                              !.items = <<Item(p, "unknown", None)>>, !.i = 1,
                              !.result = result]]
  /\ UNCHANGED <<use_sqlite, statistics, txn, lock, completed, jsonDoc, legacy,
                 disk, content, part, clientVars, runVars, task>>

\* DownloadDatabase.get_unverified_files: "SELECT file_path FROM downloads WHERE
\* verified = FALSE OR sha256 IS NULL" on a connection of its own.
GetUnverifiedFiles ==
  {r.file_path : r \in {x \in downloads : ~x.verified \/ x.sha256 = None}}

\* Something outside the program rewrites the file at p (other bytes, of the
\* same or of another length), creates it or removes it.
AlterFile(p, size, bytes) ==
  /\ <<size, bytes>> # <<disk[p], content[p]>>
  /\ size = Absent => bytes = 0
  /\ disk' = [disk EXCEPT ![p] = size]
  /\ content' = [content EXCEPT ![p] = bytes]
  /\ UNCHANGED <<storeVars, part, call, clientVars, runVars, task>>

(***************************************************************************)
(* The store used by several threads at once.                              *)
(***************************************************************************)
StoreInit ==
  /\ use_sqlite \in BOOLEAN
  /\ downloads = {}
  /\ statistics = EmptyStatistics
  /\ txn = NoTxn
  /\ lock = 0
  /\ completed = {}
  /\ jsonDoc = [exists |-> ~use_sqlite, completed |-> {}, torn |-> FALSE]
  /\ disk = [p \in Paths |-> IF p = 1 THEN FileLen ELSE Absent]
  /\ content = [p \in Paths |-> 0]
  /\ legacy = NoLegacy
  /\ part = [p \in Paths |-> Absent]
  /\ call = [c \in Callers |-> IdleCall]
  /\ callsLeft = MaxCalls
  /\ requested = [p \in Paths |-> 0]
  /\ overlap = [p \in Paths |-> FALSE]
  /\ strategy = "thread"
  /\ maxConcurrent = 1
  /\ queue = {}
  /\ phase = "Done"
  /\ run = 1
  /\ task = [t \in Paths |-> IdleTask]
  /\ faultsLeft = 0
  /\ lostMark = [t \in Paths |-> FALSE]
  /\ cancelled = FALSE
  /\ other = NoOther

StoreNext ==
  \E c \in 1..NumCallers :
    \/ \E p \in Tasks, m \in Metas, ch \in BOOLEAN :
         CallMarkDownloaded(c, p, m[1], m[2], ch)
    \/ \E items \in Batches : CallMarkDownloadedBatch(c, items)
    \/ AcquireLock(c)
    \/ SelectExisting(c)
    \/ InsertRow(c)
    \/ UpdateStats(c)
    \/ Commit(c)
    \/ \E p \in Tasks : CallMarkCompleted(c, p)
    \/ SaveSnapshot(c)
    \/ SaveOpen(c)
    \/ SaveWrite(c)

StoreSpec == StoreInit /\ [][StoreNext]_vars

Quiescent == \A c \in Callers : ~InFlight(c)

\* The rich store constructed on a base directory that may hold a legacy index
\* (left by the flat store: any set of paths, or a file that does not parse),
\* then used by several threads, with store operations that may raise.
RichInit ==
  /\ use_sqlite = TRUE
  /\ downloads = {}
  /\ statistics = EmptyStatistics
  /\ txn = NoTxn
  /\ lock = 0
  /\ completed = {}
  /\ jsonDoc \in {[exists |-> FALSE, completed |-> {}, torn |-> FALSE],
                  [exists |-> TRUE, completed |-> {}, torn |-> TRUE]}
                 \cup {[exists |-> TRUE, completed |-> S, torn |-> FALSE] :
                         S \in SUBSET Tasks}
  /\ legacy = NoLegacy
  /\ disk = [p \in Paths |-> IF p = 1 THEN FileLen ELSE Absent]
  /\ content = [p \in Paths |-> 0]
  /\ part = [p \in Paths |-> Absent]
  /\ call = [c \in Callers |->
               IF c = 1 THEN [IdleCall EXCEPT !.op = "migrate", !.pc = "init"]
               ELSE IdleCall]
  /\ callsLeft = MaxCalls
  /\ requested = [p \in Paths |-> 0]
  /\ overlap = [p \in Paths |-> FALSE]
  /\ strategy = "thread"
  /\ maxConcurrent = 1
  /\ queue = {}
  /\ phase = "Done"
  /\ run = 1
  /\ task = [t \in Paths |-> IdleTask]
  /\ faultsLeft = MaxFaults
  /\ lostMark = [t \in Paths |-> FALSE]
  /\ cancelled = FALSE
  /\ other = NoOther

\* The lists the callers of this specification pass to mark_downloaded_batch:
\* every item with the type its name gives and no size.
NamedBatches ==
  UNION {[1..n -> {Item(p, TypeFromName(p), None) : p \in Tasks}] : n \in 1..MaxBatch}

RichNext ==
  \E c \in 1..NumCallers :
    \/ MigrateIfNeeded(c)
    \/ ReadLegacy(c)
    \/ MigrateNext(c)
    \/ BackupLegacy(c)
    \/ Construct(c)
    \/ \E p \in Tasks, ch \in BOOLEAN :
         CallMarkDownloaded(c, p, TypeFromName(p), None, ch)
    \/ \E items \in NamedBatches : CallMarkDownloadedBatch(c, items)
    \/ AcquireLock(c)
    \/ SelectExisting(c)
    \/ InsertRow(c)
    \/ UpdateStats(c)
    \/ Commit(c)
    \/ CallRaises(c)

RichSpec == RichInit /\ [][RichNext]_vars

\* The rich store with a file (path 1) that is marked, verified, marked again
\* and altered.
VerifyInit ==
  /\ StoreInit
  /\ use_sqlite

VerifyNext ==
  \E p \in {1} :
    \/ \E size \in {Absent} \cup 0..FileLen, bytes \in {0, 1} :
         AlterFile(p, size, bytes)
    \/ \E c \in 1..NumCallers :
         \/ \E ch \in BOOLEAN : CallMarkDownloaded(c, p, TypeFromName(p), None, ch)
         \/ \E recalculate \in BOOLEAN : VerifyFileIntegrity(c, p, recalculate)
         \/ AcquireLock(c)
         \/ SelectExisting(c)
         \/ InsertRow(c)
         \/ UpdateStats(c)
         \/ Commit(c)

VerifySpec == VerifyInit /\ [][VerifyNext]_vars

\* DownloadIndex.mark_completed_batch: "self.completed.update(file_paths)";
\* the call to save() follows. (DownloadDatabase.mark_downloaded_batch with
\* use_sqlite False does the same under its lock.)
CallMarkCompletedBatch(c, items) ==
  /\ ~use_sqlite
  /\ callsLeft > 0
  /\ call[c].pc = "idle"
  /\ completed' = completed \cup PathsOf(items)
  /\ call' = [call EXCEPT ![c] =
        [IdleCall EXCEPT !.op = "mark_completed_batch", !.pc = "save",
                         !.items = items, !.i = 1]]
  /\ NoteRequest(c, items)
  /\ UNCHANGED <<use_sqlite, legacy, downloads, statistics, txn, lock, jsonDoc,
                 disk, content, part, runVars, task>>

\* The store is closed and opened again on the same base directory, between
\* two calls: DownloadIndex(base_dir) loads download_index.json into a new
\* set, DownloadDatabase(base_dir) finds its tables (and no legacy index).
Reopen ==
  /\ Quiescent
  /\ run < MaxRuns
  /\ run' = run + 1
  /\ completed' = IF use_sqlite THEN completed ELSE LoadJson(jsonDoc)
  /\ UNCHANGED <<use_sqlite, legacy, downloads, statistics, txn, lock, jsonDoc,
                 disk, content, part, call, clientVars, strategy, maxConcurrent,
                 queue, phase, task, faultsLeft, lostMark, cancelled, other>>

\* One thread uses a store, of either backend, one call after the other, and
\* may close and reopen it between calls.
SequenceNext ==
  \/ Reopen
  \/ \E c \in {1} :
       \/ \E p \in Tasks : CallMarkDownloaded(c, p, TypeFromName(p), None, FALSE)
       \/ \E items \in NamedBatches : CallMarkDownloadedBatch(c, items)
       \/ AcquireLock(c)
       \/ SelectExisting(c)
       \/ InsertRow(c)
       \/ UpdateStats(c)
       \/ Commit(c)
       \/ \E p \in Tasks : CallMarkCompleted(c, p)
       \/ \E items \in NamedBatches : CallMarkCompletedBatch(c, items)
       \/ SaveSnapshot(c)
       \/ SaveOpen(c)
       \/ SaveWrite(c)

SequenceSpec == StoreInit /\ [][SequenceNext]_vars

\* "with self._lock:" in a thread that has a DownloadDatabase instance of its
\* own (each instance creates its lock, "self._lock = threading.Lock()", and no
\* other thread uses this one): the lock is free, and only SQLite stands
\* between the connections of the two instances.
AcquireOwnLock(c) ==
  /\ call[c].pc = "lock"
  /\ call' = [call EXCEPT ![c].pc = "select"]
  /\ UNCHANGED <<storeVars, disk, content, part, clientVars, runVars, task>>

\* Two DownloadDatabase instances opened on the same base directory (one
\* download_index.db), each used by one thread.
TwoStoresNext ==
  \E c \in 1..NumCallers :
    \/ \E p \in Tasks, ch \in BOOLEAN :
         CallMarkDownloaded(c, p, TypeFromName(p), None, ch)
    \/ AcquireOwnLock(c)
    \/ SelectExisting(c)
    \/ InsertRow(c)
    \/ UpdateStats(c)
    \/ Commit(c)

TwoStoresSpec == VerifyInit /\ [][TwoStoresNext]_vars

\* The file at p loses its read permission.
MakeUnreadable(p) ==
  /\ disk[p] # Absent
  /\ content[p] # Unreadable
  /\ content' = [content EXCEPT ![p] = Unreadable]
  /\ UNCHANGED <<storeVars, disk, part, call, clientVars, runVars, task>>

\* The same threads, with files that may also become unreadable.
VerifyAnyNext ==
  \/ VerifyNext
  \/ MakeUnreadable(1)

VerifyAnySpec == VerifyInit /\ [][VerifyAnyNext]_vars

(***************************************************************************)
(* The transfer engine: download_file_async (strategy "async") and          *)
(* download_file_task with retry_with_backoff (strategy "thread").          *)
(***************************************************************************)
\* One attempt more than the engine makes.
FiveRetries == 4 + 1
\* "MAX_RETRIES = 4", "INITIAL_RETRY_DELAY = 2.0  # segundos"
MAX_RETRIES == 4
INITIAL_RETRY_DELAY == 2
\* "retry_with_backoff(attempt_download, max_retries=4, initial_delay=2.0)"
max_retries == 4
initial_delay == 2

MaxAttempts == IF strategy = "async" THEN MAX_RETRIES ELSE max_retries
FirstDelay == IF strategy = "async" THEN INITIAL_RETRY_DELAY ELSE initial_delay

\* What a request ends in: no response at all (connection error, timeout), or
\* the status of the response.
NetErr == 0
Statuses == {NetErr, 200, 206, 404, 416, 500}
Unlimited == 0 - 1

\* task.get('file_type', 'unknown') of the task whose path is t.
FileTypeOf(t) == IF t = 1 THEN "video" ELSE "pdf"

\* The store holds a record of path p.
Stored(p) ==
  IF use_sqlite THEN \E r \in downloads : r.file_path = p ELSE p \in completed

\* A store that never answers that a path is downloaded.
IsDownloadedNever(p) == FALSE
\* is_downloaded / is_completed; every row is written with status 'completed'.
IsDownloaded(p) ==
  IF use_sqlite THEN CountRows(downloads, p) > 0 ELSE p \in completed

\* An engine that never sends a Range header.
RangeHeaderNever(partSize) == None
\* A Range header that always asks for the resource from its first byte.
RangeHeaderFromZero(partSize) == IF partSize # Absent THEN 0 ELSE None
\* "if os.path.exists(temp_path): headers['Range'] = f'bytes={existing_size}-'"
RangeHeader(partSize) == IF partSize # Absent THEN partSize ELSE None

\* A delay that grows by a constant step.
NextDelayLinear(d) == d + 2
\* "delay *= 2"
NextDelay(d) == d * 2

\* Tasks that hold a slot of the semaphore / a worker of the pool.
Active ==
  {t \in Paths : task[t].pc \notin {"none", "queued", "done", "raised", "cancelled"}}

\* A gate that never opens.
GateShut(active, limit) == FALSE
\* A gate that lets one task too many through.
GateOpenOneMore(active, limit) == active <= limit
\* "async with semaphore:" with Semaphore(max_workers);
\* ThreadPoolExecutor(max_workers=MAX_WORKERS).
GateOpen(active, limit) == active < limit

\* The cooperative scheduler switches tasks only at an await: while one task is
\* inside a (synchronous) store call no other task runs. Threads switch anywhere.
Sync(t) == strategy = "thread" \/ \A o \in Callers \ {t} : ~InFlight(o)

\* "except (aiohttp.ClientError, asyncio.TimeoutError)" of download_file_async;
\* "except requests.exceptions.RequestException: return (False, ...)" followed by
\* the "if attempt < max_retries - 1: time.sleep(delay)" of retry_with_backoff.
\* After the last attempt the loop ends and the failure is returned.
OnNetworkError(tk) ==
  IF tk.attempt < MaxAttempts - 1
  THEN [tk EXCEPT !.pc = "sleep", !.transients = @ + 1,
                  !.waits = Append(@, tk.delay)]
  ELSE [tk EXCEPT !.pc = "done", !.transients = @ + 1,
                  !.outcome = "Failed_exhausted"]

\* A retry helper that gives up at the first exception.
OnFatalErrorNoRetry(tk) ==
  [tk EXCEPT !.pc = "done", !.fatals = @ + 1,
             !.fatalAt = IF tk.fatals = 0 THEN tk.requests ELSE @,
             !.outcome = "Failed_fatal"]
\* "except Exception": download_file_async removes the .part file and returns
\* the failure. attempt_download removes the .part file and re-raises into
\* retry_with_backoff, whose "except Exception" sleeps and tries again unless
\* this was the last attempt; only then download_file_task returns the failure.
OnFatalError(tk) ==
  IF strategy = "thread" /\ tk.attempt < MaxAttempts - 1
  THEN [tk EXCEPT !.pc = "sleep", !.fatals = @ + 1,
                  !.fatalAt = IF tk.fatals = 0 THEN tk.requests ELSE @,
                  !.waits = Append(@, tk.delay)]
  ELSE [tk EXCEPT !.pc = "done", !.fatals = @ + 1,
                  !.fatalAt = IF tk.fatals = 0 THEN tk.requests ELSE @,
                  !.outcome = "Failed_fatal"]

\* An engine that never marks a path.
EngineMarkNothing(t) == UNCHANGED <<completed, call>>
\* The engine's call of the store: index.mark_downloaded(file_path=path, url=url,
\* course_name=..., lesson_name=..., file_type=file_type) when the index is a
\* DownloadDatabase, index.mark_completed(path) otherwise.
EngineMark(t) ==
  IF use_sqlite
  THEN /\ MarkDownloaded(t, t, FileTypeOf(t), None, FALSE)
       /\ UNCHANGED completed
  ELSE MarkCompleted(t, t)

\* A task takes a slot: the semaphore is acquired / a worker thread takes the
\* task from the pool's queue, in the order the tasks were submitted.
Admit(t) ==
  /\ phase = "Draining"
  /\ task[t].pc = "queued"
  /\ \A o \in Paths : task[o].pc = "queued" => t <= o
  /\ GateOpen(Cardinality(Active), maxConcurrent)
  /\ Sync(t)
  /\ task' = [task EXCEPT ![t].pc = "check"]
  /\ UNCHANGED <<storeVars, disk, content, part, call, clientVars, runVars>>

\* "if index.is_downloaded(path): return ...pulado"; "if os.path.exists(path):
\* mark, return ...pulado"; otherwise the retry loop starts.
CheckIndex(t) ==
  /\ task[t].pc = "check"
  /\ Sync(t)
  /\ LockFree(lock)
  /\ LET tk == [task[t] EXCEPT !.sawIndexed = Stored(t),
                               !.sawExists = disk[t] # Absent]
     IN IF IsDownloaded(t)
        THEN /\ task' = [task EXCEPT ![t] =
                  [tk EXCEPT !.pc = "done", !.outcome = "Skipped_indexed"]]
             /\ UNCHANGED <<completed, call>>
        ELSE IF disk[t] # Absent
        THEN /\ EngineMark(t)
             /\ task' = [task EXCEPT ![t] =
                  [tk EXCEPT !.pc = "marking", !.outcome = "Skipped_exists"]]
        ELSE /\ task' = [task EXCEPT ![t] =
                  [tk EXCEPT !.pc = "request", !.attempt = 0, !.delay = FirstDelay]]
             /\ UNCHANGED <<completed, call>>
  /\ UNCHANGED <<use_sqlite, legacy, downloads, statistics, txn, lock, jsonDoc,
                 disk, content, part, clientVars, runVars>>

\* The store raises (sqlite3.Error, OSError) inside index.is_downloaded(path) or,
\* when inMark, inside the mark of a file found on disk. Both calls stand before
\* the engine's try block, so the exception leaves the engine.
CheckIndexStoreError(t, inMark) ==
  /\ task[t].pc = "check"
  /\ Sync(t)
  /\ LockFree(lock)
  /\ inMark => (~IsDownloaded(t) /\ disk[t] # Absent)
  /\ FaultAllowed
  /\ UseFault
  /\ task' = [task EXCEPT ![t] =
        [task[t] EXCEPT !.pc = "raised", !.outcome = "Raised",
                        !.sawIndexed = IF inMark THEN Stored(t) ELSE @,
                        !.sawExists = IF inMark THEN disk[t] # Absent ELSE @]]
  /\ UNCHANGED <<storeVars, disk, content, part, call, clientVars, strategy, maxConcurrent,
                 queue, phase, run, lostMark, cancelled, other>>

\* The body a server sends for a resource of FileLen chunks: with status 206 the
\* chunks from the offset of the Range header on (none if the offset is at the
\* end), with status 200 the whole resource.
BodyChunks(status, range) ==
  IF status = 206
  THEN IF range < FileLen THEN FileLen - range ELSE 0
  ELSE FileLen

\* An engine that opens the .part file for appending whatever the status.
PartOpenedForAppend(status, size) == IF size = Absent THEN 0 ELSE size
\* "mode = 'ab' if response.status == 206 else 'wb'" and the open of temp_path:
\* 'wb' leaves an empty file, 'ab' keeps what the file holds (the thread engine
\* removes the old file before it opens it with 'wb').
PartOpened(status, size) == IF status = 206 THEN size ELSE 0

\* One attempt up to the response: the Range header from the .part file, the
\* GET, and the branch on the status. 416: the .part file, if any, is renamed.
\* raise_for_status raises a network-class error for 4xx and 5xx. 200: the .part
\* file is written anew ('wb'). 206: it is appended to ('ab').
SendRequest(t, status) ==
  /\ task[t].pc = "request"
  /\ Sync(t)
  /\ status = 206 => part[t] # Absent
  /\ LET tk == [task[t] EXCEPT !.requests = @ + 1,
                               !.range = RangeHeader(part[t]),
                               !.status = status,
                               !.partAtRequest = part[t],
                               !.bodyChunks = 0]
     IN IF status \in {NetErr, 404, 500}
        THEN /\ FaultAllowed
             /\ UseFault
             /\ task' = [task EXCEPT ![t] = OnNetworkError(tk)]
             /\ UNCHANGED <<disk, content, part>>
        ELSE IF status = 416
        THEN /\ task' = [task EXCEPT ![t] =
                  [tk EXCEPT !.pc = "mark", !.outcome = "Completed_resumed"]]
             /\ disk' = IF part[t] # Absent THEN [disk EXCEPT ![t] = part[t]] ELSE disk
             /\ content' = IF part[t] # Absent THEN [content EXCEPT ![t] = 0]
                           ELSE content
             /\ part' = [part EXCEPT ![t] = Absent]
             /\ UNCHANGED faultsLeft
        ELSE /\ task' = [task EXCEPT ![t] =
                  [tk EXCEPT !.pc = "stream",
                             !.remaining = BodyChunks(status, tk.range)]]
             /\ part' = [part EXCEPT ![t] = PartOpened(status, @)]
             /\ UNCHANGED <<disk, content, faultsLeft>>
  /\ UNCHANGED <<storeVars, call, clientVars, strategy, maxConcurrent, queue,
                 phase, run, lostMark, cancelled, other>>

\* "async for chunk in response.content.iter_chunked(CHUNK_SIZE): await
\* f.write(chunk)"; "for chunk in response.iter_content(...): f.write(chunk)".
StreamChunk(t) ==
  /\ task[t].pc = "stream"
  /\ task[t].remaining > 0
  /\ Sync(t)
  /\ part' = [part EXCEPT ![t] = @ + 1]
  /\ task' = [task EXCEPT ![t].remaining = @ - 1, ![t].bodyChunks = @ + 1]
  /\ UNCHANGED <<storeVars, disk, content, call, clientVars, runVars>>

\* An engine that removes the .part file whatever the error.
PartAlwaysRemoved(kind, size) == Absent
\* An engine whose clean-up clause also catches the cancellation.
PartRemovedOnCancel(kind, size) == IF kind = "net" THEN size ELSE Absent
\* The .part file after the except clause has run: "except asyncio.CancelledError:
\* raise" touches nothing ("Don't delete partial file on cancellation"), the
\* network-class clause leaves the file as it is ("Erros de rede sao
\* recuperaveis"), the "except Exception" clause removes it ("os.remove(temp_path)").
PartAfterError(kind, size) == IF kind \in {"cancel", "net"} THEN size ELSE Absent

\* The stream breaks before its end: reading the next chunk raises a
\* network-class error ("net"), or writing it raises an OSError ("disk").
StreamError(t, kind) ==
  /\ task[t].pc = "stream"
  /\ task[t].remaining > 0
  /\ Sync(t)
  /\ FaultAllowed
  /\ UseFault
  /\ task' = [task EXCEPT ![t] = IF kind = "net" THEN OnNetworkError(task[t])
                                 ELSE OnFatalError(task[t])]
  /\ part' = [part EXCEPT ![t] = PartAfterError(kind, @)]
  /\ UNCHANGED <<storeVars, disk, content, call, clientVars, strategy, maxConcurrent,
                 queue, phase, run, lostMark, cancelled, other>>

\* "os.rename(temp_path, path)" after the stream has ended.
Publish(t) ==
  /\ task[t].pc = "stream"
  /\ task[t].remaining = 0
  /\ Sync(t)
  /\ disk' = [disk EXCEPT ![t] = part[t]]
  /\ content' = [content EXCEPT ![t] = 0]
  /\ part' = [part EXCEPT ![t] = Absent]
  /\ task' = [task EXCEPT ![t].pc = "mark", ![t].outcome = "Completed"]
  /\ UNCHANGED <<storeVars, call, clientVars, runVars>>

\* The mark that follows the rename (of a 416 answer or of a finished stream).
BeginMark(t) ==
  /\ task[t].pc = "mark"
  /\ Sync(t)
  /\ EngineMark(t)
  /\ task' = [task EXCEPT ![t].pc = "marking", ![t].markRaised = FALSE]
  /\ UNCHANGED <<use_sqlite, legacy, downloads, statistics, txn, lock, jsonDoc,
                 disk, content, part, clientVars, runVars>>

\* An engine that goes on as if the mark had returned.
OnMarkErrorSwallowed(tk) == [tk EXCEPT !.pc = "done"]
\* The exception of a mark reaches the engine. The mark of a file found on disk
\* stands before the try block, so the exception leaves the engine. The mark
\* that follows the rename stands inside it: an sqlite3.Error or an OSError is
\* not of the network class, so "except Exception" handles it.
OnMarkError(tk) ==
  IF tk.outcome = "Skipped_exists"
  THEN [tk EXCEPT !.pc = "raised", !.outcome = "Raised"]
  ELSE OnFatalError(tk)

\* The engine's mark raises part-way (see StoreRaises). The clean-up of the
\* "except Exception" clause finds no .part file: it was renamed before the mark.
MarkRaises(t) ==
  /\ task[t].pc = "marking"
  /\ Sync(t)
  /\ StoreRaises(t)
  /\ task' = [task EXCEPT ![t] = [OnMarkError(task[t]) EXCEPT !.markRaised = TRUE]]

\* The store call has returned: "pbar.update(1); return ...".
MarkReturn(t) ==
  /\ task[t].pc = "marking"
  /\ call[t].pc = "idle"
  /\ Sync(t)
  /\ task' = [task EXCEPT ![t].pc = "done"]
  /\ UNCHANGED <<storeVars, disk, content, part, call, clientVars, runVars>>

\* "await asyncio.sleep(delay); delay *= 2; continue" / "time.sleep(delay);
\* delay *= 2" and the next iteration of the loop.
Wake(t) ==
  /\ task[t].pc = "sleep"
  /\ Sync(t)
  /\ task' = [task EXCEPT ![t].pc = "request", ![t].attempt = @ + 1,
                          ![t].delay = NextDelay(@)]
  /\ UNCHANGED <<storeVars, disk, content, part, call, clientVars, runVars>>

(***************************************************************************)
(* The orchestrators: process_download_queue_async, process_download_queue. *)
(***************************************************************************)
\* "pending = [t for t in queue if not index.is_downloaded(t['path'])]"; the
\* thread-pool orchestrator adds "and not os.path.exists(t['path'])".
Pending(done) ==
  {t \in queue : t \notin done /\ (strategy = "thread" => disk[t] = Absent)}

\* The store is opened (DownloadDatabase(base_dir) keeps its tables; DownloadIndex
\* loads download_index.json or writes an empty one), the queue is filtered and
\* every pending task is launched.
StartRun ==
  /\ phase = "Idle"
  /\ LET loaded == LoadJson(jsonDoc)
         done == IF use_sqlite THEN {t \in Paths : CountRows(downloads, t) > 0}
                 ELSE loaded
     IN /\ completed' = IF use_sqlite THEN completed ELSE loaded
        /\ jsonDoc' = IF use_sqlite \/ jsonDoc.exists THEN jsonDoc
                      ELSE [exists |-> TRUE, completed |-> {}, torn |-> FALSE]
        /\ task' = [t \in Paths |->
                      IF t \in Pending(done)
                      THEN [IdleTask EXCEPT !.pc = "queued"] ELSE IdleTask]
        /\ phase' = IF Pending(done) = {} THEN "Done" ELSE "Draining"
  /\ UNCHANGED <<use_sqlite, legacy, downloads, statistics, txn, lock, disk, content, part, call,
                 clientVars, strategy, maxConcurrent, queue, run, faultsLeft,
                 lostMark, cancelled, other>>

\* How the orchestrator ends once every task has ended. asyncio.gather(*tasks,
\* return_exceptions=True) returns the exceptions as results and the function
\* returns. In the thread pool "future.result()" re-raises the exception of a
\* task, and a KeyboardInterrupt leaves the "with ThreadPoolExecutor" block
\* only after shutdown(wait=True) has waited for every submitted task.
OrchestratorEnd(raised, interrupted) ==
  IF interrupted THEN "Cancelled"
  ELSE IF strategy = "thread" /\ raised THEN "Raised"
  ELSE "Done"

\* asyncio.gather has every result / as_completed has yielded every future.
FinishRun ==
  /\ phase = "Draining"
  /\ \A t \in Paths : task[t].pc \in {"none", "done", "raised"}
  /\ phase' = OrchestratorEnd(\E t \in Paths : task[t].pc = "raised", cancelled)
  /\ UNCHANGED <<storeVars, disk, content, part, call, clientVars, task, strategy,
                 maxConcurrent, queue, run, faultsLeft, lostMark, cancelled, other>>

\* The operator interrupts the run (Ctrl+C). asyncio.run cancels the main task,
\* gather cancels every child, and each coroutine, suspended at an await (the
\* semaphore, the request, a chunk, the sleep), gets CancelledError there and
\* re-raises it; no coroutine is inside its synchronous check or mark. In the
\* thread pool the KeyboardInterrupt is raised in the main thread only: the
\* workers go on, and the tasks still queued in the pool are run as well.
Cancel ==
  /\ phase = "Draining"
  /\ ~cancelled
  /\ cancelled' = TRUE
  /\ IF strategy = "async"
     THEN /\ \A t \in Paths : task[t].pc \notin {"check", "mark", "marking"}
          /\ task' = [t \in Paths |->
               IF task[t].pc \in {"queued", "request", "stream", "sleep"}
               THEN [task[t] EXCEPT !.pc = "cancelled", !.outcome = "Cancelled",
                                    !.heldAtCancel = task[t].pc = "queued"]
               ELSE task[t]]
          /\ part' = [t \in Paths |->
               IF task[t].pc \in {"queued", "request", "stream", "sleep"}
               THEN PartAfterError("cancel", part[t]) ELSE part[t]]
          /\ phase' = OrchestratorEnd(FALSE, TRUE)
     ELSE /\ task' = [t \in Paths |->
               [task[t] EXCEPT !.heldAtCancel = task[t].pc = "queued"]]
          /\ UNCHANGED <<part, phase>>
  /\ UNCHANGED <<storeVars, disk, content, call, clientVars, strategy, maxConcurrent,
                 queue, run, faultsLeft, lostMark, other>>

\* A row or a path that outlives the process.
Persisted(t) ==
  IF use_sqlite THEN CountRows(downloads, t) > 0
  ELSE t \in LoadJson(jsonDoc)

\* The process dies and is started again on the same task list: everything in
\* memory is lost, an open transaction is rolled back, the files stay.
Crash ==
  /\ phase = "Draining"
  /\ run < MaxRuns
  /\ run' = run + 1
  /\ phase' = "Idle"
  /\ task' = [t \in Paths |-> IdleTask]
  /\ call' = [c \in Callers |-> IdleCall]
  /\ txn' = NoTxn
  /\ lock' = 0
  /\ completed' = {}
  /\ faultsLeft' = IF faultsLeft = Unlimited THEN Unlimited ELSE MaxFaults
  /\ cancelled' = FALSE
  /\ lostMark' = [t \in Paths |->
       \/ lostMark[t]
       \/ /\ task[t].pc \in {"mark", "marking"}
          /\ task[t].outcome \in {"Completed", "Completed_resumed"}
          /\ disk[t] # Absent
          /\ ~Persisted(t)]
  /\ UNCHANGED <<use_sqlite, legacy, downloads, statistics, jsonDoc, disk, content, part,
                 clientVars, strategy, maxConcurrent, queue, other>>

\* An orchestrator run over the whole task list, on an empty base directory.
Init ==
  /\ use_sqlite \in BOOLEAN
  /\ downloads = {}
  /\ statistics = EmptyStatistics
  /\ txn = NoTxn
  /\ lock = 0
  /\ completed = {}
  /\ jsonDoc = [exists |-> FALSE, completed |-> {}, torn |-> FALSE]
  /\ disk = [p \in Paths |-> Absent]
  /\ content = [p \in Paths |-> 0]
  /\ legacy = NoLegacy
  /\ part = [p \in Paths |-> Absent]
  /\ call = [c \in Callers |-> IdleCall]
  /\ callsLeft = 0
  /\ requested = [p \in Paths |-> 0]
  /\ overlap = [p \in Paths |-> FALSE]
  /\ strategy \in {"async", "thread"}
  /\ maxConcurrent \in 1..MaxWorkers
  /\ queue = Tasks
  /\ phase = "Idle"
  /\ run = 1
  /\ task = [t \in Paths |-> IdleTask]
  /\ faultsLeft = MaxFaults
  /\ lostMark = [t \in Paths |-> FALSE]
  /\ cancelled = FALSE
  /\ other = NoOther

\* The engine executed directly on one task (path 1), whatever the state of the
\* store and of the disk left by earlier runs.
EngineInit ==
  /\ use_sqlite \in BOOLEAN
  /\ \E marked \in BOOLEAN :
       /\ downloads = IF use_sqlite /\ marked
                      THEN {[file_path |-> 1, file_type |-> FileTypeOf(1),
                             size_bytes |-> None, sha256 |-> None,
                             verified |-> FALSE]}
                      ELSE {}
       /\ statistics = IF use_sqlite /\ marked
                       THEN UpdateStatistics(EmptyStatistics, FileTypeOf(1), None)
                       ELSE EmptyStatistics
       /\ completed = IF ~use_sqlite /\ marked THEN {1} ELSE {}
       /\ jsonDoc = [exists |-> ~use_sqlite, completed |-> completed, torn |-> FALSE]
  /\ txn = NoTxn
  /\ lock = 0
  /\ disk \in [Paths -> {Absent, FileLen}]
  /\ content = [p \in Paths |-> 0]
  /\ legacy = NoLegacy
  /\ part \in [Paths -> {Absent} \cup 0..FileLen]
  /\ \A p \in Paths \ {1} : disk[p] = Absent /\ part[p] = Absent
  /\ call = [c \in Callers |-> IdleCall]
  /\ callsLeft = 0
  /\ requested = [p \in Paths |-> 0]
  /\ overlap = [p \in Paths |-> FALSE]
  /\ strategy \in {"async", "thread"}
  /\ maxConcurrent = 1
  /\ queue = {1}
  /\ phase = "Draining"
  /\ run = 1
  /\ task = [t \in Paths |-> IF t = 1 THEN [IdleTask EXCEPT !.pc = "queued"]
                             ELSE IdleTask]
  /\ faultsLeft = Unlimited
  /\ lostMark = [t \in Paths |-> FALSE]
  /\ cancelled = FALSE
  /\ other = NoOther

Next ==
  \/ StartRun
  \/ FinishRun
  \/ Crash
  \/ Cancel
  \/ \E t \in Paths :
       \/ Admit(t)
       \/ CheckIndex(t)
       \/ \E inMark \in BOOLEAN : CheckIndexStoreError(t, inMark)
       \/ \E status \in Statuses : SendRequest(t, status)
       \/ StreamChunk(t)
       \/ \E kind \in {"net", "disk"} : StreamError(t, kind)
       \/ Publish(t)
       \/ BeginMark(t)
       \/ AcquireLock(t)
       \/ SelectExisting(t)
       \/ InsertRow(t)
       \/ UpdateStats(t)
       \/ Commit(t)
       \/ SaveSnapshot(t)
       \/ SaveOpen(t)
       \/ SaveWrite(t)
       \/ MarkRaises(t)
       \/ MarkReturn(t)
       \/ Wake(t)

Spec == Init /\ [][Next]_vars

EngineSpec == EngineInit /\ [][Next]_vars

\* One orchestrator run that is neither killed nor interrupted.
RunNext ==
  \/ StartRun
  \/ FinishRun
  \/ \E t \in Paths :
       \/ Admit(t)
       \/ CheckIndex(t)
       \/ \E inMark \in BOOLEAN : CheckIndexStoreError(t, inMark)
       \/ \E status \in Statuses : SendRequest(t, status)
       \/ StreamChunk(t)
       \/ \E kind \in {"net", "disk"} : StreamError(t, kind)
       \/ Publish(t)
       \/ BeginMark(t)
       \/ AcquireLock(t)
       \/ SelectExisting(t)
       \/ InsertRow(t)
       \/ UpdateStats(t)
       \/ Commit(t)
       \/ SaveSnapshot(t)
       \/ SaveOpen(t)
       \/ SaveWrite(t)
       \/ MarkRaises(t)
       \/ MarkReturn(t)
       \/ Wake(t)

\* The process keeps running: while some coroutine or thread can take a step,
\* the event loop / the operating system lets one of them take it. Nothing is
\* assumed about which one.
RunSpec == Init /\ [][RunNext]_vars /\ WF_vars(RunNext)

(***************************************************************************)
(* The three-file run: one file on disk and unmarked, one half downloaded, *)
(* one fresh, and a server that answers as HTTP prescribes.                *)
(***************************************************************************)
\* The status a correct server gives to the engine's request for a resource of
\* FileLen chunks: 200 without a Range header, 206 for a range that starts
\* inside the resource, 416 for one that starts at its end or beyond (the three
\* statuses the engine tells apart).
ServerStatus(partSize) ==
  IF RangeHeader(partSize) = None THEN 200
  ELSE IF RangeHeader(partSize) < FileLen THEN 206
  ELSE 416

\* The files of the scenario: A, B and C.
FileA == 1
FileB == FileA + 1
FileC == FileB + 1
ThreeFiles == {FileA, FileB, FileC}

\* get_statistics()['total_files']: the statistics row of the rich backend,
\* "len(self.completed)" of the flat one.
TotalFiles == IF use_sqlite THEN statistics.total_files ELSE Cardinality(completed)

\* A's file is on disk, B's .part file holds one chunk of the FileLen.
ScenarioDisk == [p \in Paths |-> IF p = FileA THEN FileLen ELSE Absent]
ScenarioPart == [p \in Paths |-> IF p = FileB THEN 1 ELSE Absent]

ScenarioInit ==
  /\ use_sqlite \in BOOLEAN
  /\ downloads = {}
  /\ statistics = EmptyStatistics
  /\ txn = NoTxn
  /\ lock = 0
  /\ completed = {}
  /\ jsonDoc = [exists |-> FALSE, completed |-> {}, torn |-> FALSE]
  /\ disk = ScenarioDisk
  /\ content = [p \in Paths |-> 0]
  /\ legacy = NoLegacy
  /\ part = ScenarioPart
  /\ call = [c \in Callers |-> IdleCall]
  /\ callsLeft = 0
  /\ requested = [p \in Paths |-> 0]
  /\ overlap = [p \in Paths |-> FALSE]
  /\ strategy \in {"async", "thread"}
  /\ maxConcurrent \in 1..MaxWorkers
  /\ queue = ThreeFiles
  /\ phase = "Idle"
  /\ run = 1
  /\ task = [t \in Paths |-> IdleTask]
  /\ faultsLeft = 0
  /\ lostMark = [t \in Paths |-> FALSE]
  /\ cancelled = FALSE
  /\ other = NoOther

ScenarioNext ==
  \/ StartRun
  \/ FinishRun
  \/ \E t \in Paths :
       \/ Admit(t)
       \/ CheckIndex(t)
       \/ SendRequest(t, ServerStatus(part[t]))
       \/ StreamChunk(t)
       \/ Publish(t)
       \/ BeginMark(t)
       \/ AcquireLock(t)
       \/ SelectExisting(t)
       \/ InsertRow(t)
       \/ UpdateStats(t)
       \/ Commit(t)
       \/ SaveSnapshot(t)
       \/ SaveOpen(t)
       \/ SaveWrite(t)
       \/ MarkReturn(t)

ScenarioSpec == ScenarioInit /\ [][ScenarioNext]_vars

(***************************************************************************)
(* The three-file run made under one strategy, then under the other.       *)
(***************************************************************************)
\* What a run has come to: the outcome and the number of requests of each task,
\* the files and the .part files, and the paths the store holds, in memory and
\* as a store opened afresh would find them.
RunResult ==
  <<[t \in ThreeFiles |-> task[t].outcome],
    [t \in ThreeFiles |-> task[t].requests],
    disk, part,
    {t \in ThreeFiles : Stored(t)},
    {t \in ThreeFiles : Persisted(t)}>>

OtherStrategy(s) == IF s = "async" THEN "thread" ELSE "async"

\* The run is over. Its result is kept aside, the base directory is put back
\* as it was before the run, and the same task list is given to the other
\* orchestrator, with the same backend and the same number of workers.
SwitchStrategy ==
  /\ phase \in {"Done", "Raised"}
  /\ other = NoOther
  /\ other' = RunResult
  /\ strategy' = OtherStrategy(strategy)
  /\ downloads' = {}
  /\ statistics' = EmptyStatistics
  /\ completed' = {}
  /\ jsonDoc' = [exists |-> FALSE, completed |-> {}, torn |-> FALSE]
  /\ disk' = ScenarioDisk
  /\ content' = [p \in Paths |-> 0]
  /\ part' = ScenarioPart
  /\ call' = [c \in Callers |-> IdleCall]
  /\ task' = [t \in Paths |-> IdleTask]
  /\ phase' = "Idle"
  /\ UNCHANGED <<use_sqlite, txn, lock, legacy, clientVars, maxConcurrent, queue,
                 run, faultsLeft, lostMark, cancelled>>

CompareNext ==
  \/ ScenarioNext
  \/ SwitchStrategy

CompareSpec == ScenarioInit /\ [][CompareNext]_vars

(***************************************************************************)
(* A run, and the same run started again once the first has succeeded.     *)
(***************************************************************************)
\* The outcome the engine returned for task t is a success or a skip.
CompletedOrSkipped(t) ==
  /\ task[t].pc = "done"
  /\ task[t].outcome \in {"Completed", "Completed_resumed", "Skipped_indexed",
                          "Skipped_exists"}

\* The orchestrator has returned, every task of the list ended Completed or
\* Skipped, and the program is started again with the same task list and base
\* directory: a new process, with nothing of the first one in memory.
Rerun ==
  /\ phase = "Done"
  /\ run < MaxRuns
  /\ \A t \in queue : CompletedOrSkipped(t)
  /\ run' = run + 1
  /\ phase' = "Idle"
  /\ task' = [t \in Paths |-> IdleTask]
  /\ call' = [c \in Callers |-> IdleCall]
  /\ completed' = {}
  /\ faultsLeft' = IF faultsLeft = Unlimited THEN Unlimited ELSE MaxFaults
  /\ UNCHANGED <<use_sqlite, legacy, downloads, statistics, txn, lock, jsonDoc,
                 disk, content, part, clientVars, strategy, maxConcurrent, queue,
                 lostMark, cancelled, other>>

\* The base directory of the first run may hold the file of the first task and
\* a partial file of the second.
RerunInit ==
  /\ use_sqlite \in BOOLEAN
  /\ downloads = {}
  /\ statistics = EmptyStatistics
  /\ txn = NoTxn
  /\ lock = 0
  /\ completed = {}
  /\ jsonDoc = [exists |-> FALSE, completed |-> {}, torn |-> FALSE]
  /\ \E onDisk \in {Absent, FileLen} :
       disk = [p \in Paths |-> IF p = 1 THEN onDisk ELSE Absent]
  /\ content = [p \in Paths |-> 0]
  /\ legacy = NoLegacy
  /\ \E partial \in {Absent, 1} :
       part = [p \in Paths |-> IF p = 2 THEN partial ELSE Absent]
  /\ call = [c \in Callers |-> IdleCall]
  /\ callsLeft = 0
  /\ requested = [p \in Paths |-> 0]
  /\ overlap = [p \in Paths |-> FALSE]
  /\ strategy \in {"async", "thread"}
  /\ maxConcurrent \in 1..MaxWorkers
  /\ queue = Tasks
  /\ phase = "Idle"
  /\ run = 1
  /\ task = [t \in Paths |-> IdleTask]
  /\ faultsLeft = MaxFaults
  /\ lostMark = [t \in Paths |-> FALSE]
  /\ cancelled = FALSE
  /\ other = NoOther

RerunNext ==
  \/ RunNext
  \/ Rerun

RerunSpec == RerunInit /\ [][RerunNext]_vars

(***************************************************************************)
(* Claims about the checkpoint store.                                      *)
(***************************************************************************)
RequestedPaths == {p \in Paths : requested[p] >= 1}

\* C1: whatever the interleaving of the callers, once all the marks of one and
\* the same path p have returned, the rich store holds exactly one row for p and
\* total_files has grown from 0 to exactly 1; the flat store's completed set
\* holds p and nothing else.
C1_ConcurrentDedup ==
  \A p \in Paths :
    (Quiescent /\ RequestedPaths = {p}) =>
      IF use_sqlite
      THEN CountRows(downloads, p) = 1 /\ statistics.total_files = 1
      ELSE completed = {p}

\* Two marks of the same path were in progress at the same time on the rich
\* store and both have returned.
C1_Witness ==
  \E p \in Paths :
    /\ use_sqlite
    /\ Quiescent
    /\ RequestedPaths = {p}
    /\ overlap[p]
    /\ requested[p] >= 2
    /\ CountRows(downloads, p) = 1

\* C2: on the rich store, after any sequence of mark_downloaded and
\* mark_downloaded_batch calls, total_files counts each marked path once,
\* however many times it was marked (N marks of p add 1, not N).
C2_IdempotentStatistics ==
  (use_sqlite /\ Quiescent) =>
    statistics.total_files = Cardinality(RequestedPaths)

\* Path 1 was marked at least three times, so at least twice inside one batch.
C2_Witness ==
  /\ use_sqlite
  /\ Quiescent
  /\ requested[1] >= 3
  /\ statistics.total_files = Cardinality(RequestedPaths)

(***************************************************************************)
(* Claims about the orchestrators and the transfer engine.                 *)
(***************************************************************************)
Terminal(t) == task[t].pc = "done"
Succeeded(t) == task[t].outcome \in {"Completed", "Completed_resumed"}

\* C3: at every moment of an orchestrator run the tasks that have passed the
\* admission gate and are not yet terminal number at most maxConcurrent, under
\* the thread pool as under the cooperative scheduler.
C3_AdmissionBound == Cardinality(Active) <= maxConcurrent

\* Every slot is taken by a task that is streaming bytes and another task is
\* held at the gate.
C3_Witness ==
  /\ Cardinality(Active) = maxConcurrent
  /\ \E t \in Paths : task[t].pc = "queued"
  /\ \E t \in Paths : task[t].pc = "stream" /\ task[t].bodyChunks > 0

\* C4: a task whose file was renamed into place but not yet marked when the
\* process crashed is, once the next run has finished, marked in the store and
\* reported Skipped (exists on disk), with no request sent for it in that run.
C4_CrashBetweenRenameAndMark ==
  \A t \in Paths :
    (lostMark[t] /\ phase = "Done") =>
      /\ Terminal(t)
      /\ task[t].outcome = "Skipped_exists"
      /\ task[t].requests = 0
      /\ Stored(t)

\* C5: every request carries Range: bytes=S- where S is the size of the .part
\* file when there is one; and when a request made with a .part file of size S
\* is answered 416, the file is renamed into place, no chunk of a body is read,
\* no other request follows, and the task ends Completed (resumed) and marked
\* (the mark not raising).
C5_ResumeOn416 ==
  \A t \in Paths :
    /\ (task[t].requests > 0 /\ task[t].partAtRequest # Absent) =>
         task[t].range = task[t].partAtRequest
    /\ (task[t].status = 416 /\ task[t].partAtRequest # Absent
          /\ ~task[t].markRaised) =>
         /\ task[t].pc \in {"mark", "marking", "done"}
         /\ task[t].outcome = "Completed_resumed"
         /\ task[t].bodyChunks = 0
         /\ part[t] = Absent
         /\ disk[t] = task[t].partAtRequest
         /\ Terminal(t) => Stored(t)

\* A task resumed from a .part file of one chunk has ended on a 416 answer.
C5_Witness ==
  \E t \in Paths :
    /\ Terminal(t)
    /\ task[t].status = 416
    /\ task[t].partAtRequest = 1
    /\ task[t].range = 1
    /\ task[t].outcome = "Completed_resumed"
    /\ disk[t] = 1
    /\ Stored(t)

\* C6: a task whose file was on disk and whose path was not in the store when
\* the engine checked sends no request, and ends Skipped (exists on disk) with
\* its path marked in the store (the store call not raising).
C6_SkipExisting ==
  \A t \in Paths :
    (task[t].pc \notin {"none", "queued", "check", "raised"}
       /\ ~task[t].sawIndexed /\ task[t].sawExists) =>
      /\ task[t].pc \in {"marking", "done"}
      /\ task[t].outcome = "Skipped_exists"
      /\ task[t].requests = 0
      /\ Terminal(t) => Stored(t)

\* Such a task has ended.
C6_Witness ==
  \E t \in Paths :
    /\ Terminal(t)
    /\ ~task[t].sawIndexed
    /\ task[t].sawExists
    /\ task[t].outcome = "Skipped_exists"
    /\ Stored(t)

\* C7: the engine's check of a task whose path is already in the store ends the
\* task as Skipped (already indexed) in that step (is_downloaded not raising)
\* and changes nothing else: no request, no change to a file or a .part file,
\* no change to the store.
C7_SkipIndexedChangesNothing ==
  [][\A t \in Paths :
       (task[t].pc = "check" /\ task'[t].pc \notin {"check", "raised"}
          /\ run' = run /\ Stored(t)) =>
         /\ task'[t].pc = "done"
         /\ task'[t].outcome = "Skipped_indexed"
         /\ task'[t].requests = 0
         /\ UNCHANGED <<storeVars, disk, content, part, call>>]_vars

\* A task found in the store has ended, whatever was on disk.
C7_Witness ==
  \E t \in Paths :
    /\ Terminal(t)
    /\ task[t].sawIndexed
    /\ task[t].outcome = "Skipped_indexed"
    /\ part[t] # Absent

\* C8: no task makes a fifth attempt, and a task all of whose attempts ended in
\* a network-class error has made exactly 4 attempts when it ends, and ends with
\* the returned outcome Failed; in the async engine and in the thread engine.
C8_ExhaustionAfterFour ==
  \A t \in Paths :
    /\ task[t].requests <= 4
    /\ (Terminal(t) /\ task[t].requests > 0
          /\ task[t].transients = task[t].requests) =>
         /\ task[t].requests = 4
         /\ task[t].outcome = "Failed_exhausted"

\* A task has failed after four attempts that all ended in a network error.
C8_Witness ==
  \E t \in Paths :
    /\ Terminal(t)
    /\ task[t].requests = 4
    /\ task[t].transients = 4
    /\ task[t].outcome = "Failed_exhausted"

\* C9: the wait before attempt k (k = 2, 3, 4) is 2 * 2^(k-2), there are at
\* most three waits and none after the attempt a task ends on, and a task whose
\* attempts 1 to 3 ended in a network error and whose attempt 4 did not fail
\* ends Completed.
C9_BackoffDoubles ==
  \A t \in Paths :
    /\ \A k \in 2..(Len(task[t].waits) + 1) : task[t].waits[k - 1] = 2 * 2^(k - 2)
    /\ Len(task[t].waits) <= 3
    /\ (Terminal(t) /\ task[t].requests > 0) =>
         Len(task[t].waits) = task[t].requests - 1
    /\ (Terminal(t) /\ task[t].requests = 4 /\ task[t].transients = 3
          /\ task[t].fatals = 0) => Succeeded(t)

\* A task has completed on its fourth attempt after waits of 2, 4 and 8.
C9_Witness ==
  \E t \in Paths :
    /\ Terminal(t)
    /\ task[t].waits = <<2, 4, 8>>
    /\ task[t].transients = 3
    /\ task[t].outcome = "Completed"

\* C10: once an attempt of a task has failed with an exception that is not
\* network-class, the task has ended Failed with that attempt: no wait and no
\* further request follows.
C10_FatalAbortsAtOnce ==
  \A t \in Paths :
    task[t].fatals >= 1 =>
      /\ Terminal(t)
      /\ task[t].outcome = "Failed_fatal"
      /\ task[t].requests = task[t].fatalAt
      /\ Len(task[t].waits) = task[t].fatalAt - 1

Failed(t) == task[t].outcome \in {"Failed_exhausted", "Failed_fatal"}

\* C11: a response with status 404 (a 4xx other than 416) ends the task with
\* that attempt: the task is Failed, its .part file is gone, and neither a wait
\* nor another request follows.
C11_ClientErrorIsFatal ==
  \A t \in Paths :
    task[t].status = 404 =>
      /\ Terminal(t)
      /\ Failed(t)
      /\ part[t] = Absent

\* C12: the step in which an attempt fails with an error the engine retries,
\* the last attempt included, leaves the .part file as it was; the step in which
\* an attempt fails with any other exception removes it, and a task that ends
\* Failed on such an exception has no .part file.
C12_PartKeptOrRemoved ==
  [][\A t \in Paths :
       /\ task'[t].transients > task[t].transients => part'[t] = part[t]
       /\ task'[t].fatals > task[t].fatals => part'[t] = Absent
       /\ (task'[t].pc = "done" /\ task'[t].outcome = "Failed_fatal") =>
            part'[t] = Absent]_vars

\* A task has ended Failed after its last attempt broke in mid-stream, and the
\* chunk it had written is still in its .part file.
C12_Witness ==
  \E t \in Paths :
    /\ Terminal(t)
    /\ task[t].outcome = "Failed_exhausted"
    /\ task[t].bodyChunks >= 1
    /\ part[t] >= 1

\* C13: the step in which the run is cancelled changes no .part file, no file
\* and nothing in the store: a task cancelled in flight keeps the bytes it has
\* written in its .part file and its path is not marked.
C13_CancelKeepsPart ==
  [][(cancelled' /\ ~cancelled) =>
       /\ part' = part
       /\ disk' = disk
       /\ UNCHANGED storeVars
       /\ \A t \in Paths : Stored(t)' = Stored(t)]_vars

\* A task was cancelled in mid-stream: the chunk it had written is in its .part
\* file and its path is not in the store.
C13_Witness ==
  \E t \in Paths :
    /\ task[t].pc = "cancelled"
    /\ task[t].bodyChunks >= 1
    /\ part[t] >= 1
    /\ ~Stored(t)

\* C14: when the execution of one task has raised an exception and the run was
\* not interrupted, the orchestrator has returned normally (Done) once it has
\* ended, and every other task it launched has ended.
C14_TaskExceptionIsContained ==
  (/\ phase \notin {"Idle", "Draining"}
   /\ ~cancelled
   /\ \E t \in Paths : task[t].pc = "raised") =>
    /\ phase = "Done"
    /\ \A o \in Paths : task[o].pc \in {"none", "done", "raised"}

\* C16: a task that was still waiting to be admitted when the run was cancelled
\* is never admitted afterwards and no request is sent for it.
C16_NoAdmissionAfterCancel ==
  \A t \in Paths :
    task[t].heldAtCancel =>
      /\ task[t].pc \in {"queued", "cancelled"}
      /\ task[t].requests = 0

\* The orchestrator has ended: it has returned, or has re-raised the exception
\* of a task (the thread pool, see C14).
Ended == phase \in {"Done", "Raised"}
AllEnded == \A t \in Paths : task[t].pc \in {"none", "done", "raised"}

ReadBack ==
  IF use_sqlite THEN {r.file_path : r \in downloads} ELSE LoadJson(jsonDoc)

\* C17: no step of a store mutation takes a path out of the persisted
\* checkpoint: were the process killed after any step, the checkpoint read back
\* would hold every path that was persisted before the mutation began.
C17_AtomicPersistence == [][ReadBack \subseteq ReadBack']_vars

\* C18: on the flat store, once concurrent mark_completed calls for distinct
\* paths have all returned, download_index.json holds every one of the paths.
C18_FlatMarksAllPersisted ==
  (~use_sqlite /\ Quiescent /\ \A p \in Paths : requested[p] <= 1) =>
    RequestedPaths \subseteq LoadJson(jsonDoc)

\* Caller c is changing the database or has download_index.json open for writing.
InMutation(c) == call[c].pc \in {"select", "insert", "stats", "commit", "written"}

\* C19: a caller that is changing the store holds the store's lock, so no two
\* callers are changing it at the same time.
C19_OneWriterUnderLock ==
  /\ \A c \in Callers : InMutation(c) => lock = c
  /\ \A c, o \in Callers : (InMutation(c) /\ InMutation(o)) => c = o

\* The next statement of caller c reads a downloaded file's size from the disk:
\* "if size_bytes is None and os.path.exists(file_path): os.path.getsize(...)"
\* inside the loop of mark_downloaded_batch.
StatsFile(c) ==
  /\ call[c].op = "mark_downloaded_batch"
  /\ call[c].pc = "select"
  /\ CurrentItem(c).size_bytes = None
  /\ disk[CurrentItem(c).file_path] # Absent

\* C20: no caller reads a downloaded file (its size, its contents for the
\* digest) while it holds the store's lock.
C20_NoFileIoUnderLock ==
  \A c \in Callers : StatsFile(c) => lock # c


(***************************************************************************)
(* Claims about the statistics, the records and the migration.             *)
(***************************************************************************)
\* C21: in every committed state of the rich store total_files equals the number
\* of rows of downloads, whatever marks, batch marks and migrations ran and
\* however they interleaved; a mark that raises part-way leaves neither its row
\* nor its increment behind.
C21_StatisticsMatchRows ==
  use_sqlite => statistics.total_files = Cardinality(downloads)

\* A mark raised part-way (its path has no row), another one committed.
C21_Witness ==
  /\ Quiescent
  /\ faultsLeft = 0
  /\ ~legacy.failed
  /\ Cardinality(downloads) >= 1
  /\ \E p \in Paths : requested[p] >= 1 /\ CountRows(downloads, p) = 0


\* C22: no operation removes a checkpoint record: once is_downloaded(p) is true
\* on a store it stays true through every later operation (marks of the same or
\* of other paths, operations that raise, another construction on the same
\* directory), and it is true only of a path that was marked, by a mark, a batch
\* mark or the migration.
C22_RecordsAreNeverRemoved ==
  /\ [][\A p \in Paths : IsDownloaded(p) => IsDownloaded(p)']_vars
  /\ [](\A p \in Paths :
          IsDownloaded(p) => (requested[p] >= 1 \/ p \in legacy.found))

\* A migrated path was marked again, and another path was marked after it.
C22_Witness ==
  /\ Quiescent
  /\ \E p \in Paths :
       /\ p \in legacy.found
       /\ requested[p] >= 1
       /\ IsDownloaded(p)
       /\ \E q \in Paths \ {p} : requested[q] >= 1 /\ IsDownloaded(q)


Skipped(t) == task[t].outcome \in {"Skipped_indexed", "Skipped_exists"}

\* C23: when the durable write of a mark fails (the statement or the commit of
\* the rich store, the open or the write of download_index.json), the exception
\* reaches the engine that called the mark, and the task whose latest mark raised
\* is never reported Completed or Skipped: it is retried, reported failed, or its
\* exception leaves the engine.
C23_FailedMarkIsNotSuccess ==
  \A t \in Paths :
    task[t].markRaised =>
      /\ ~(Terminal(t) /\ (Succeeded(t) \/ Skipped(t)))
      /\ task[t].pc \in {"sleep", "request", "stream", "mark", "done", "raised"}
      /\ Terminal(t) => Failed(t)

\* A task ended as failed after the mark that followed its rename had raised:
\* the file is on disk and the store has no durable record of it.
C23_Witness ==
  \E t \in Paths :
    /\ task[t].markRaised
    /\ Terminal(t)
    /\ Failed(t)
    /\ disk[t] # Absent
    /\ ~Persisted(t)


\* No caller has marked anything: every row comes from the migration.
OnlyMigrated == \A p \in Paths : requested[p] = 0
\* The first construction found a legacy index that parses and did not raise.
Migrated == legacy.inits >= 1 /\ legacy.parsed /\ ~legacy.failed
\* A construction after the first one is running.
Reconstructing == legacy.inits >= 1 /\ Constructing

C25_FailedMigrationLeavesStoreEmpty ==
  (legacy.failed /\ OnlyMigrated /\ ~Constructing) =>
    /\ downloads = {} \/ legacy.inits >= 2
    /\ jsonDoc.exists \/ legacy.inits >= 2
    /\ (legacy.inits >= 2 /\ faultsLeft = 0) =>
         \A p \in LoadJson(jsonDoc) \cup legacy.found : IsDownloaded(p)


(***************************************************************************)
(* Claims about the verification of files.                                  *)
(***************************************************************************)
\* The step in which verify_file_integrity(p) of caller c returns.
VerifyReturns(c, p) ==
  /\ call'[c].op = "verify_file_integrity"
  /\ call'[c] # call[c]
  /\ call'[c].items[1].file_path = p

HasDigest(p) == CountRows(downloads, p) > 0 /\ RowOf(downloads, p).sha256 # None

\* C26: for a record with a stored digest whose file holds other bytes than the
\* digested ones, of the same length or of another, verify_file_integrity
\* returns invalid with the hash-mismatch message.
C26_AlteredFileIsHashMismatch ==
  [][\A c \in Callers, p \in Paths :
       (/\ VerifyReturns(c, p)
        /\ HasDigest(p)
        /\ disk[p] # Absent
        /\ CalculateSha256(disk, content, p) # RowOf(downloads, p).sha256)
       => call'[c].result = <<FALSE, "hash_mismatch">>]_vars

\* C27: verify_file_integrity returns file-missing whenever the file is absent,
\* otherwise size-mismatch whenever the size on disk differs from the stored
\* size, whatever that size (0 included), and it returns one of the answers that
\* need the digest only when the file is there and its size agrees.
C27_MissingThenSizeThenDigest ==
  [][\A c \in Callers, p \in Paths :
       VerifyReturns(c, p) =>
         /\ disk[p] = Absent => call'[c].result = <<FALSE, "missing">>
         /\ (/\ disk[p] # Absent
             /\ CountRows(downloads, p) > 0
             /\ RowOf(downloads, p).size_bytes # None
             /\ RowOf(downloads, p).size_bytes # disk[p])
            => call'[c].result = <<FALSE, "size_mismatch">>
         /\ call'[c].result[2] \in {"hash_saved", "intact", "hash_mismatch"} =>
              /\ disk[p] # Absent
              /\ RowOf(downloads, p).size_bytes \in {None, disk[p]}]_vars

\* C28: get_unverified_files returns every recorded path that has no digest,
\* and a recorded path it does not return (its verification succeeded, or it was
\* marked with calculate_hash=True on an existing file) is not returned later.
C28_UnverifiedUntilVerified ==
  /\ [](\A p \in Paths :
          (CountRows(downloads, p) > 0 /\ ~HasDigest(p)) => p \in GetUnverifiedFiles)
  /\ [][\A p \in Paths :
          (CountRows(downloads, p) > 0 /\ p \notin GetUnverifiedFiles)
            => p \notin GetUnverifiedFiles']_vars

(***************************************************************************)
(* Claims about a whole run and about running again.                       *)
(***************************************************************************)
\* C29: for the task list of three files where A's file is on disk but
\* unmarked, B has a half-complete .part file and C is fresh, with a server that
\* answers correctly, once the orchestrator run is over every task has ended
\* Completed or Skipped, the store has a record of each of the three paths and
\* total_files = 3, under the async and under the thread-pool orchestrator.
C29_ThreeFileRun ==
  phase = "Done" =>
    /\ \A t \in ThreeFiles : CompletedOrSkipped(t)
    /\ \A t \in ThreeFiles : Stored(t)
    /\ TotalFiles = 3

\* C30: in a second run, started after a run in which every task ended
\* Completed or Skipped, no task sends a request, and no step changes the final
\* files, the .part files, the rows and the statistics of the rich store or
\* download_index.json.
C30_SecondRunIsNoOp ==
  /\ [](run >= 2 => \A t \in Paths : task[t].requests = 0)
  /\ [][(run >= 2 /\ run' >= 2) =>
         UNCHANGED <<disk, content, part, downloads, statistics, jsonDoc>>]_vars

(***************************************************************************)
(* Claims about resuming, retrying and what a mark changes.                *)
(***************************************************************************)
\* C33: every request of a task, the first and each retry, carries Range:
\* bytes=S- where S is the size the .part file has when the attempt starts, and
\* no Range header when there is no .part file; so the attempt that follows a
\* failure which left bytes in the .part file asks for the bytes after them.
C33_RangeOnEveryAttempt ==
  [][\A t \in Paths :
       (task'[t].requests = task[t].requests + 1) =>
         /\ task[t].pc = "request"
         /\ task'[t].range = IF part[t] # Absent THEN part[t] ELSE None]_vars

\* A retry has asked for the bytes after those an interrupted stream had left.
C33_Witness ==
  \E t \in Paths :
    /\ task[t].attempt >= 1
    /\ task[t].transients >= 1
    /\ task[t].requests = task[t].attempt + 1
    /\ task[t].bodyChunks = 0
    /\ task[t].pc = "stream"
    /\ task[t].partAtRequest >= 1
    /\ task[t].range = task[t].partAtRequest

\* C34: a task that ends Completed after a streamed fetch (the server sending,
\* with 206, the remainder from the requested offset or, with 200, the whole
\* body) leaves a destination file of the resource's full length and no .part
\* file, however many earlier attempts broke mid-stream.
C34_CompletedFileIsWhole ==
  \A t \in Paths :
    (task[t].outcome = "Completed" /\ task[t].pc \in {"mark", "marking", "done"}) =>
      /\ disk[t] = FileLen
      /\ part[t] = Absent

\* A task has completed with a 206 answer appended to what a broken stream left.
C34_Witness ==
  \E t \in Paths :
    /\ Terminal(t)
    /\ task[t].outcome = "Completed"
    /\ task[t].transients >= 1
    /\ task[t].status = 206
    /\ task[t].partAtRequest >= 1
    /\ task[t].partAtRequest < FileLen
    /\ disk[t] = FileLen

\* C35: retry_with_backoff(attempt_download, max_retries=4, ...) calls the
\* attempt at most 4 times: an exception of an attempt before the fourth is
\* swallowed and the attempt is made again after the backoff wait, an exception
\* of the fourth is re-raised (download_file_task then returns the failure),
\* and four unsuccessful attempts end in the failure after exactly 4 calls; so
\* a task whose first attempt raised can still complete.
C35_RetryWithBackoff ==
  /\ [](strategy = "thread" =>
         \A t \in Paths :
           /\ task[t].requests <= max_retries
           /\ task[t].pc = "sleep" => task[t].attempt < max_retries - 1
           /\ (Terminal(t) /\ task[t].outcome \in {"Failed_fatal", "Failed_exhausted"}) =>
                /\ task[t].requests = max_retries
                /\ task[t].attempt = max_retries - 1)
  /\ [][strategy = "thread" =>
         \A t \in Paths :
           (task'[t].fatals = task[t].fatals + 1) =>
             IF task[t].attempt < max_retries - 1
             THEN /\ task'[t].pc = "sleep"
                  /\ task'[t].waits = Append(task[t].waits, task[t].delay)
             ELSE /\ task'[t].pc = "done"
                  /\ task'[t].outcome = "Failed_fatal"]_vars

\* A task of the thread engine whose first attempt raised has completed.
C35_Witness ==
  \E t \in Paths :
    /\ strategy = "thread"
    /\ Terminal(t)
    /\ task[t].outcome = "Completed"
    /\ task[t].fatals >= 1
    /\ task[t].fatalAt = 1
    /\ disk[t] = FileLen

\* The record of path p shows another digest or another verified flag after the step.
DigestChanged(p) ==
  /\ CountRows(downloads, p) > 0
  /\ CountRows(downloads', p) > 0
  /\ \/ RowOf(downloads', p).sha256 # RowOf(downloads, p).sha256
     \/ RowOf(downloads', p).verified # RowOf(downloads, p).verified

\* C36: once a path has a record, the record's digest and verified flag change
\* only in a step of verify_file_integrity or of the migration: the commit of a
\* later mark_downloaded or mark_downloaded_batch of the path leaves them as
\* they were.
C36_MarkKeepsDigest ==
  [][\A p \in Paths :
       DigestChanged(p) =>
         \E c \in Callers : VerifyReturns(c, p) \/ call[c].op = "migrate"]_vars

\* C39: a verify_file_integrity call that returns invalid (file missing, path
\* not recorded, size mismatch, digest error, hash mismatch) leaves every record
\* and the statistics as they were.
C39_InvalidVerifyChangesNothing ==
  [][\A c \in Callers, p \in Paths :
       (VerifyReturns(c, p) /\ ~call'[c].result[1]) =>
         /\ call'[c].result[2] \in {"missing", "not_recorded", "size_mismatch",
                                    "hash_error", "hash_mismatch"}
         /\ UNCHANGED <<downloads, statistics>>]_vars

\* A verification has found another digest than the stored one, and the record,
\* verified before, still is.
C39_Witness ==
  \E c \in Callers :
    /\ call[c].op = "verify_file_integrity"
    /\ call[c].result = <<FALSE, "hash_mismatch">>
    /\ CountRows(downloads, 1) > 0
    /\ RowOf(downloads, 1).verified
    /\ statistics.total_files = 1

\* C37: whenever the engine marks a path (for a file found on disk, after a
\* 416 answer, after a finished stream) the destination file is on disk, so a
\* task that has ended Completed or Skipped (exists on disk) has its file,
\* whatever the server answered, a 416 for a task without a .part file included.
C37_MarkedFileExists ==
  \A t \in Paths :
    (/\ task[t].pc \in {"mark", "marking", "done"}
     /\ task[t].outcome \in {"Skipped_exists", "Completed", "Completed_resumed"})
    => disk[t] # Absent

\* The sum of size_bytes over the rows (NULL counts for nothing).
RECURSIVE SumOfSizes(_)
SumOfSizes(rows) ==
  IF rows = {} THEN 0
  ELSE LET r == CHOOSE x \in rows : TRUE
       IN (IF r.size_bytes = None THEN 0 ELSE r.size_bytes) + SumOfSizes(rows \ {r})

RowsOfType(rows, ft) == Cardinality({r \in rows : r.file_type = ft})

\* C38: in every committed state of the rich store total_bytes is the sum of
\* size_bytes over the records and total_videos, total_pdfs and total_materials
\* are the numbers of records of each kind, also after a path was marked again
\* with another size or kind.
C38_StatisticsMatchRecords ==
  use_sqlite =>
    /\ statistics.total_bytes = SumOfSizes(downloads)
    /\ statistics.total_videos = RowsOfType(downloads, "video")
    /\ statistics.total_pdfs = RowsOfType(downloads, "pdf")
    /\ statistics.total_materials = RowsOfType(downloads, "material")

(***************************************************************************)
(* Claims about two stores on one directory and about equivalences.        *)
(***************************************************************************)
\* C40: when two DownloadDatabase instances opened on the same base directory
\* mark the same new path concurrently, the database ends with one record of
\* the path and total_files has grown by exactly 1.
C40_DedupAcrossInstances ==
  Quiescent =>
    /\ \A p \in RequestedPaths : CountRows(downloads, p) = 1
    /\ statistics.total_files = Cardinality(RequestedPaths)

\* C32: the two backends give the same is_downloaded answers: whatever marks
\* and batch marks were made, between calls each backend answers true for
\* exactly the paths that were marked, and so does a store opened afresh on the
\* same base directory.
C32_BackendsAnswerAlike ==
  Quiescent =>
    \A p \in Paths :
      /\ IsDownloaded(p) <=> requested[p] >= 1
      /\ p \in ReadBack <=> requested[p] >= 1

\* A flat store, closed and reopened, answers for the paths marked before.
C32_Witness ==
  /\ ~use_sqlite
  /\ Quiescent
  /\ run = 2
  /\ callsLeft = MaxCalls - 1
  /\ \E p \in Paths : requested[p] = 1 /\ IsDownloaded(p) /\ p \in ReadBack

\* C31: the two strategies are equivalent: the same task list, on the same
\* base directory and store and with the same server, ends under the thread
\* pool and under the cooperative scheduler with the same outcome and the same
\* number of requests for each task, the same files and the same store.
C31_StrategiesAgree ==
  (other # NoOther /\ phase \in {"Done", "Raised"}) => RunResult = other

================================================================
